---- MODULE Spec2Model ----
(***************************************************************************)
(* YouTube Alarm App (src/App.tsx).                                        *)
(*                                                                         *)
(* The file holds two variants of the App component: the one with          *)
(* background notifications (lines 1-503, variant 1) and the one without   *)
(* (lines 506-951, variant 2).  The model runs either of them; `variant`   *)
(* is fixed by Init.                                                       *)
(*                                                                         *)
(* Strings are sequences of one-character strings, so that split, Number,  *)
(* padStart and the two regular expressions are computed, not assumed.     *)
(* The item in AsyncStorage is the JSON text itself, written by stringify  *)
(* and read by parse.  Dates are milliseconds counted from local midnight  *)
(* of day 0.                                                               *)
(*                                                                         *)
(* A handler runs to completion and React renders before the next event,   *)
(* so one handler is one action.  A callback reads the state of the render *)
(* that created it: the callbacks installed by the mount effect (deps [])  *)
(* read the first render for ever; handlers bound in JSX read the current  *)
(* render.  Handlers therefore take the render `r` they close over.        *)
(***************************************************************************)
EXTENDS Integers, Sequences, FiniteSets, TLC

VARIABLES
    variant,            \* 1: App with notifications, 2: App without
    now,                \* the wall clock, ms since local midnight of day 0
    youtubeUrl,         \* useState('')
    alarmTime,          \* useState('07:00')
    isAlarmEnabled,     \* useState(false)
    isPlaying,          \* useState(false)
    currentVolume,      \* useState(1)
    playbackStartTime,  \* useState<Date | null>(null)
    timers,             \* pending setInterval / setTimeout handles
    nextTimerId,        \* the next handle the timer API returns
    volumeIntervalRef,  \* useRef: handle of the latest step interval
    stopIntervalRef,    \* useRef: handle of the latest auto-stop timeout
    webViewLoaded,      \* the mounted WebView has reported onLoadEnd
    stored,             \* AsyncStorage item 'alarmData': its text, or NoItem
    loadPending,        \* loadAlarmData awaits AsyncStorage.getItem
    savePending,        \* renders whose saveAlarmData awaits setItem
    scheduled,          \* notifications armed with PushNotification
    delivered,          \* a notification is shown in the tray
    appState,           \* AppState: "active" or "background"
    alarmChecks,        \* the armed one-second check intervals
    emitted,            \* messages posted to the WebView by the last action
    alert,              \* Alert.alert shown by the last action
    lastOp              \* the last operation that ran

cfgVars   == <<youtubeUrl, alarmTime, isAlarmEnabled>>
playVars  == <<isPlaying, currentVolume, playbackStartTime>>
timerVars == <<timers, nextTimerId, volumeIntervalRef, stopIntervalRef>>
storeVars == <<stored, loadPending, savePending>>
notifVars == <<scheduled, delivered>>
vars == <<variant, alarmChecks, now, youtubeUrl, alarmTime, isAlarmEnabled,
          isPlaying, currentVolume, playbackStartTime, timers, nextTimerId,
          volumeIntervalRef, stopIntervalRef, webViewLoaded, stored,
          loadPending, savePending, scheduled, delivered, appState,
          emitted, alert, lastOp>>

\* An optional value is a sequence of length 0 or 1: null, undefined, NaN and
\* the Invalid Date are None, a value v is Some(v).
None == <<>>
Some(v) == <<v>>

\* `undefined` where a string is expected (a field a parsed record lacks): no
\* string, since every element of a string is one character
Undefined == <<"undefined">>

----------------------------------------------------------------------------
(* Strings                                                                 *)

Digits == <<"0", "1", "2", "3", "4", "5", "6", "7", "8", "9">>

IsDigit(c) == \E i \in 1..10 : Digits[i] = c

DigitValue(c) == (CHOOSE i \in 1..10 : Digits[i] = c) - 1

Letters == {"a", "b", "c", "d", "e", "f", "g", "h", "i", "j", "k", "l", "m",
            "n", "o", "p", "q", "r", "s", "t", "u", "v", "w", "x", "y", "z",
            "A", "B", "C", "D", "E", "F", "G", "H", "I", "J", "K", "L", "M",
            "N", "O", "P", "Q", "R", "S", "T", "U", "V", "W", "X", "Y", "Z"}

\* \w of a JavaScript regular expression
IsWordChar(c) == c \in Letters \/ IsDigit(c) \/ c = "_"

\* String.prototype.split(':')
RECURSIVE SplitColon(_)
SplitColon(s) ==
    IF \E i \in 1..Len(s) : s[i] = ":"
    THEN LET i == CHOOSE k \in 1..Len(s) :
                      s[k] = ":" /\ \A j \in 1..(k - 1) : s[j] # ":"
         IN  <<SubSeq(s, 1, i - 1)>> \o SplitColon(SubSeq(s, i + 1, Len(s)))
    ELSE <<s>>

\* Number(s) for a string of letters, digits and punctuation: '' is 0, a
\* run of digits is its decimal value, anything else is NaN
RECURSIVE DecimalValue(_)
DecimalValue(s) ==
    IF s = <<>> THEN 0
    ELSE 10 * DecimalValue(SubSeq(s, 1, Len(s) - 1)) + DigitValue(s[Len(s)])

Number(s) ==
    IF \A i \in 1..Len(s) : IsDigit(s[i]) THEN Some(DecimalValue(s)) ELSE None

\* n.toString() for 0 <= n
RECURSIVE toStr(_)
toStr(n) ==
    IF n < 10 THEN <<Digits[n + 1]>>
    ELSE toStr(n \div 10) \o <<Digits[(n % 10) + 1]>>

\* s.padStart(2, '0')
PadStart2(s) == IF Len(s) >= 2 THEN s ELSE IF Len(s) = 1 THEN <<"0">> \o s
                ELSE <<"0", "0">>

----------------------------------------------------------------------------
(* Dates                                                                   *)

MsPerSecond == 1000 * 1
MsPerMinute == 60 * MsPerSecond
MsPerHour   == 60 * MsPerMinute
MsPerDay    == 24 * MsPerHour

getHours(d)   == (d % MsPerDay) \div MsPerHour
getMinutes(d) == (d % MsPerHour) \div MsPerMinute
getSeconds(d) == (d % MsPerMinute) \div MsPerSecond

\* d.setHours(h, m, 0, 0): the date of d, at h:m:00.000; values out of range
\* carry over, NaN or undefined makes the date invalid
setHours(d, h, m) ==
    IF h # None /\ m # None
    THEN Some((d - (d % MsPerDay)) + h[1] * MsPerHour + m[1] * MsPerMinute)
    ELSE None

\* the elements [hours, minutes] of alarmTime.split(':').map(Number);
\* minutes is undefined when the string holds no colon
ParsedTime(t) ==
    LET parts == SplitColon(t)
    IN  [hours   |-> Number(parts[1]),
         minutes |-> IF Len(parts) >= 2 THEN Number(parts[2]) ELSE None]

----------------------------------------------------------------------------
(* The two regular expressions                                             *)

\* a pattern is a sequence of characters, "ANY" for . and "WORD" for \w
MatchesAt(s, i, pat) ==
    /\ i + Len(pat) - 1 <= Len(s)
    /\ \A k \in 1..Len(pat) :
          \/ pat[k] = "ANY"
          \/ pat[k] = "WORD" /\ IsWordChar(s[i + k - 1])
          \/ pat[k] = s[i + k - 1]

\* the longest run of characters outside `stop` that starts at position i
RECURSIVE RunFrom(_, _, _)
RunFrom(s, i, stop) ==
    IF i > Len(s) \/ s[i] \in stop THEN <<>>
    ELSE <<s[i]>> \o RunFrom(s, i + 1, stop)

\* (youtu.be\/|v\/|u\/\w\/|embed\/|watch\?v=|&v=)
Markers1 ==
    << <<"y", "o", "u", "t", "u", "ANY", "b", "e", "/">>,
       <<"v", "/">>,
       <<"u", "/", "WORD", "/">>,
       <<"e", "m", "b", "e", "d", "/">>,
       <<"w", "a", "t", "c", "h", "?", "v", "=">>,
       <<"&", "v", "=">> >>

\* /^.*(markers)([^#&?]*).*/ : the greedy ^.* leaves the group at the LAST
\* position where a marker matches, the first alternative that matches
\* there; the identifier is kept when it is 11 characters long
getYouTubeVideoId(url) ==
    LET hits == {i \in 1..Len(url) :
                    \E a \in 1..Len(Markers1) : MatchesAt(url, i, Markers1[a])}
    IN  IF hits = {} THEN None
        ELSE LET i  == CHOOSE h \in hits : \A g \in hits : g <= h
                 a  == CHOOSE b \in 1..Len(Markers1) :
                          /\ MatchesAt(url, i, Markers1[b])
                          /\ \A c \in 1..(b - 1) : ~MatchesAt(url, i, Markers1[c])
                 id == RunFrom(url, i + Len(Markers1[a]), {"#", "&", "?"})
             IN  IF Len(id) = 11 THEN Some(id) ELSE None

\* (?:youtube\.com\/watch\?v=|youtu\.be\/|youtube\.com\/embed\/)
Markers2 ==
    << <<"y", "o", "u", "t", "u", "b", "e", ".", "c", "o", "m", "/",
         "w", "a", "t", "c", "h", "?", "v", "=">>,
       <<"y", "o", "u", "t", "u", ".", "b", "e", "/">>,
       <<"y", "o", "u", "t", "u", "b", "e", ".", "c", "o", "m", "/",
         "e", "m", "b", "e", "d", "/">> >>

\* /(?:markers)([^&\n?#]+)/ : the FIRST position where a marker matches
\* and at least one identifier character follows
extractVideoId(url) ==
    LET id(i, a) == RunFrom(url, i + Len(Markers2[a]), {"&", "\n", "?", "#"})
        ok(i, a) == MatchesAt(url, i, Markers2[a]) /\ id(i, a) # <<>>
        hits == {i \in 1..Len(url) : \E a \in 1..Len(Markers2) : ok(i, a)}
    IN  IF hits = {} THEN None
        ELSE LET i == CHOOSE h \in hits : \A g \in hits : h <= g
                 a == CHOOSE b \in 1..Len(Markers2) :
                         ok(i, b) /\ \A c \in 1..(b - 1) : ~ok(i, c)
             IN  Some(id(i, a))

----------------------------------------------------------------------------
(* Inputs and bounds                                                       *)

\* what the user types into the URL field
UrlEmpty == <<>>
UrlValid == <<"y", "o", "u", "t", "u", ".", "b", "e", "/",
              "A", "B", "C", "D", "E", "F", "G", "H", "I", "J", "K">>
UrlBad   == <<"a", "b", "c">>
Urls == {UrlEmpty, UrlValid, UrlBad}

\* a URL with a quote and a backslash, found in a stored record
UrlQuoted == <<"a", "\"", "\\", "b">>
StoredUrls == Urls \cup {UrlQuoted}

\* what the user types into the time field
Time0700 == <<"0", "7", ":", "0", "0">>
Time2359 == <<"2", "3", ":", "5", "9">>
Time2500 == <<"2", "5", ":", "0", "0">>
AlarmTimes == {Time0700, Time2359, Time2500}

\* the clock starts at 06:59:59.000 and is read at 07:00:00.000 and 07:00:01.000
\* (and at every instant a timer is due)
At(h, m, sec, ms) == h * MsPerHour + m * MsPerMinute + sec * MsPerSecond + ms
StartInstants == {At(6, 59, 59, 0)}
Instants == {At(7, 0, 0, 0), At(7, 0, 1, 0)}

MaxTimers == 4        \* timer handles handed out in one run
MaxPendingSaves == 1  \* saves awaiting AsyncStorage at one time
HorizonMinutes == 11  \* the clock stops at 07:00 plus this many minutes
Horizon == At(7, 0, 0, 0) + HorizonMinutes * MsPerMinute

----------------------------------------------------------------------------
(* Renders, the WebView, timers                                            *)

\* the state a callback created by the first render reads (useState initial
\* values): the callbacks of the mount effect, whose deps are []
FirstRender ==
    [youtubeUrl |-> <<>>, alarmTime |-> Time0700, isAlarmEnabled |-> FALSE,
     isPlaying |-> FALSE]

\* the state a callback created by the latest render reads
CurrentRender ==
    [youtubeUrl |-> youtubeUrl, alarmTime |-> alarmTime,
     isAlarmEnabled |-> isAlarmEnabled, isPlaying |-> isPlaying]

\* the two regular expressions applied to every URL of the run (evaluated
\* once)
VideoIds1 == [u \in StoredUrls |-> getYouTubeVideoId(u)]
VideoIds2 == [u \in StoredUrls |-> extractVideoId(u)]

\* const videoId = ... of the render
videoIdOf(url) == IF variant = 1 THEN VideoIds1[url] ELSE VideoIds2[url]

\* {isPlaying && videoId && <WebView ref={webViewRef} .../>}: webViewRef.current
\* is the WebView exactly when this holds
WebViewMounted == isPlaying /\ videoIdOf(youtubeUrl) # None

\* the render after a handler: a WebView that stays mounted with the same
\* source keeps its load state, a new or re-sourced one starts loading
RenderWebView ==
    webViewLoaded' = (/\ webViewLoaded
                      /\ WebViewMounted
                      /\ isPlaying'
                      /\ videoIdOf(youtubeUrl') = videoIdOf(youtubeUrl))

\* postMessage that does not look at webViewRef.current
PostMessageUnguarded(msg) == <<msg>>

\* webViewRef.current?.postMessage(...) / if (webViewRef.current) ...: the
\* message reaches the WebView when one is mounted
PostMessage(msg) == IF WebViewMounted THEN <<msg>> ELSE <<>>

Timer(id, kind, due, volume) ==
    [id |-> id, kind |-> kind, due |-> due, volume |-> volume]

\* clearInterval(ref.current) / clearTimeout(ref.current) when ref.current
clear(ts, ref) == {t \in ts : Some(t.id) # ref}

Due(kind) == {t \in timers : t.kind = kind /\ t.due = now}

----------------------------------------------------------------------------
(* Playback Ramp Controller                                                *)

MaxVolume == 8
VolumeStepMs == 30000
MaxDurationMs == 10 * 60 * 1000
PlayDelayMs == 1000

\* startVolumeIncrease of variant 1: `let volume = 1` lives in the interval
startVolumeIncrease(id) == Timer(id, "volume", now + VolumeStepMs, 1)

\* startVolumeIncrease of variant 2: the interval keeps no counter
startVolumeIncrease2(id) == Timer(id, "volume", now + VolumeStepMs, 0)

\* the timer API has n handles left to hand out
CanArm(n) == nextTimerId + n - 1 <= MaxTimers

\* setIsPlaying(true) ... stopIntervalRef.current = setTimeout(...): both
\* refs are overwritten, whatever handle they held stays armed
StartPlaying(volumeTimer) ==
    /\ CanArm(2)
    /\ isPlaying' = TRUE
    /\ currentVolume' = 1
    /\ playbackStartTime' = Some(now)
    /\ timers' = timers \cup
                   {volumeTimer,
                    Timer(nextTimerId + 1, "stop", now + MaxDurationMs, 0)}
    /\ volumeIntervalRef' = Some(nextTimerId)
    /\ stopIntervalRef' = Some(nextTimerId + 1)
    /\ nextTimerId' = nextTimerId + 2

\* handleAlarmTrigger without its `if (!youtubeUrl) return`
handleAlarmTriggerUnguarded(r) ==
    /\ alert' = "none"
    /\ StartPlaying(startVolumeIncrease(nextTimerId))

\* handleAlarmTrigger, as created by render r
handleAlarmTrigger(r) ==
    IF r.youtubeUrl = <<>>
    THEN /\ alert' = "YouTube URL not set"
         /\ UNCHANGED <<playVars, timerVars>>
    ELSE /\ alert' = "none"
         /\ StartPlaying(startVolumeIncrease(nextTimerId))

\* triggerAlarm (variant 2), as created by render r
triggerAlarm(r) ==
    IF r.youtubeUrl = <<>>
    THEN /\ alert' = "YouTube URL not set"
         /\ UNCHANGED <<playVars, timerVars>>
    ELSE IF VideoIds2[r.youtubeUrl] = None
    THEN /\ alert' = "invalid YouTube URL"
         /\ UNCHANGED <<playVars, timerVars>>
    ELSE /\ alert' = "none"
         /\ StartPlaying(startVolumeIncrease2(nextTimerId))

\* the handler a trigger source calls
Trigger(r) == IF variant = 1 THEN handleAlarmTrigger(r) ELSE triggerAlarm(r)

\* testPlay / testPlayback: the button of the current render
testPlay ==
    /\ appState = "active"
    /\ lastOp' = "testPlay"
    /\ emitted' = <<>>
    /\ IF youtubeUrl = <<>>
       THEN /\ alert' = "YouTube URL not set"
            /\ UNCHANGED <<playVars, timerVars>>
       ELSE Trigger(CurrentRender)
    /\ UNCHANGED <<variant, alarmChecks, now, cfgVars, storeVars, notifVars, appState>>
    /\ RenderWebView

\* the callback of the step interval of variant 1
VolumeTick1(t) ==
    IF t.volume < MaxVolume
    THEN /\ currentVolume' = t.volume + 1
         /\ emitted' = PostMessage([action |-> "setVolume",
                                    volume |-> <<t.volume + 1, MaxVolume>>])
         /\ timers' = (timers \ {t}) \cup
                        {Timer(t.id, "volume", t.due + VolumeStepMs, t.volume + 1)}
    ELSE /\ currentVolume' = currentVolume
         /\ emitted' = <<>>
         /\ timers' = clear((timers \ {t}) \cup
                               {Timer(t.id, "volume", t.due + VolumeStepMs, t.volume)},
                            volumeIntervalRef)

\* the callback of the step interval of variant 2
VolumeTick2(t) ==
    LET newVolume == IF currentVolume + 1 < MaxVolume THEN currentVolume + 1
                     ELSE MaxVolume
    IN  /\ currentVolume' = newVolume
        /\ emitted' = PostMessage([action |-> "setVolume",
                                   volume |-> <<newVolume, MaxVolume>>])
        /\ timers' = (timers \ {t}) \cup
                       {Timer(t.id, "volume", t.due + VolumeStepMs, 0)}

\* a step interval fires
VolumeTimerFire ==
    \E t \in Due("volume") :
        /\ lastOp' = "volumeTimer"
        /\ alert' = "none"
        /\ IF variant = 1 THEN VolumeTick1(t) ELSE VolumeTick2(t)
        /\ UNCHANGED <<isPlaying, playbackStartTime, nextTimerId,
                       volumeIntervalRef, stopIntervalRef>>
        /\ UNCHANGED <<variant, alarmChecks, now, cfgVars, storeVars, notifVars, appState>>
        /\ RenderWebView

\* stopAlarm without its setCurrentVolume(1)
stopAlarmKeepsVolume(ts) ==
    /\ isPlaying' = FALSE
    /\ currentVolume' = currentVolume
    /\ playbackStartTime' = None
    /\ timers' = clear(clear(ts, volumeIntervalRef), stopIntervalRef)
    /\ volumeIntervalRef' = IF variant = 1 THEN volumeIntervalRef ELSE None
    /\ stopIntervalRef' = IF variant = 1 THEN stopIntervalRef ELSE None
    /\ emitted' = PostMessage([action |-> "stop"])
    /\ alert' = "none"
    /\ UNCHANGED nextTimerId

\* stopAlarm, run with the pending timers ts; variant 2 also nulls the refs
stopAlarm(ts) ==
    /\ isPlaying' = FALSE
    /\ currentVolume' = 1
    /\ playbackStartTime' = None
    /\ timers' = clear(clear(ts, volumeIntervalRef), stopIntervalRef)
    /\ volumeIntervalRef' = IF variant = 1 THEN volumeIntervalRef ELSE None
    /\ stopIntervalRef' = IF variant = 1 THEN stopIntervalRef ELSE None
    /\ emitted' = PostMessage([action |-> "stop"])
    /\ alert' = "none"
    /\ UNCHANGED nextTimerId

\* the stop button, rendered while isPlaying
StopPressed ==
    /\ appState = "active"
    /\ isPlaying
    /\ lastOp' = "stopPressed"
    /\ stopAlarm(timers)
    /\ UNCHANGED <<variant, alarmChecks, now, cfgVars, storeVars, notifVars, appState>>
    /\ RenderWebView

\* an auto-stop timeout fires: setTimeout(() => { stopAlarm(); }, 10 min)
StopTimerFire ==
    \E t \in Due("stop") :
        /\ lastOp' = "stopTimer"
        /\ stopAlarm(timers \ {t})
        /\ UNCHANGED <<variant, alarmChecks, now, cfgVars, storeVars, notifVars, appState>>
        /\ RenderWebView

\* onLoadEnd of the WebView of variant 1: setTimeout(play, 1000)
WebViewLoadEnd ==
    /\ variant = 1
    /\ WebViewMounted
    /\ ~webViewLoaded
    /\ CanArm(1)
    /\ lastOp' = "loadEnd"
    /\ webViewLoaded' = TRUE
    /\ timers' = timers \cup {Timer(nextTimerId, "play", now + PlayDelayMs, 0)}
    /\ nextTimerId' = nextTimerId + 1
    /\ emitted' = <<>>
    /\ alert' = "none"
    /\ UNCHANGED <<volumeIntervalRef, stopIntervalRef, playVars>>
    /\ UNCHANGED <<variant, alarmChecks, now, cfgVars, storeVars, notifVars, appState>>

\* the deferred play message
PlayTimerFire ==
    \E t \in Due("play") :
        /\ lastOp' = "playTimer"
        /\ timers' = timers \ {t}
        /\ emitted' = PostMessage([action |-> "play"])
        /\ alert' = "none"
        /\ UNCHANGED <<nextTimerId, volumeIntervalRef, stopIntervalRef, playVars>>
        /\ UNCHANGED <<variant, alarmChecks, now, cfgVars, storeVars, notifVars, appState,
                       webViewLoaded>>

----------------------------------------------------------------------------
(* Alarm Scheduler                                                         *)

\* the callback of setInterval(..., 1000) of startAlarmCheck, variant 1, as
\* created by render r
alarmCheck1(r) ==
    LET p == ParsedTime(r.alarmTime)
    IN  IF ~r.isAlarmEnabled
        THEN alert' = "none" /\ UNCHANGED <<playVars, timerVars>>
        ELSE IF /\ Some(getHours(now)) = p.hours
                /\ Some(getMinutes(now)) = p.minutes
                /\ getSeconds(now) = 0
        THEN handleAlarmTrigger(r)
        ELSE alert' = "none" /\ UNCHANGED <<playVars, timerVars>>

\* the callback of setInterval(..., 1000) of startAlarmCheck, variant 2
alarmCheck2(r) ==
    LET currentTime == PadStart2(toStr(getHours(now))) \o <<":">> \o
                       PadStart2(toStr(getMinutes(now)))
    IN  IF ~r.isAlarmEnabled
        THEN alert' = "none" /\ UNCHANGED <<playVars, timerVars>>
        ELSE IF currentTime = r.alarmTime /\ ~r.isPlaying
        THEN triggerAlarm(r)
        ELSE alert' = "none" /\ UNCHANGED <<playVars, timerVars>>

\* startAlarmCheck() runs in the mount effect and nowhere else, so the
\* interval it armed then is the only one and its callback is the one the
\* first render created
startAlarmCheck ==
    IF variant = 1 THEN alarmCheck1(FirstRender) ELSE alarmCheck2(FirstRender)

\* one firing of the one-second interval; its phase against the wall clock
\* is arbitrary, so it may fire at any instant the clock shows
Tick ==
    /\ alarmChecks # {}
    /\ lastOp' = "tick"
    /\ emitted' = <<>>
    /\ startAlarmCheck
    /\ UNCHANGED <<variant, alarmChecks, now, cfgVars, storeVars, notifVars, appState>>
    /\ RenderWebView

\* alarmDate with `alarmDate < now` for `alarmDate <= now`
alarmDateStrict(r) ==
    LET p == ParsedTime(r.alarmTime)
        d == setHours(now, p.hours, p.minutes)
    IN  IF d # None /\ d[1] < now THEN Some(d[1] + MsPerDay) ELSE d

\* the date scheduleLocalNotification computes for render r
alarmDate(r) ==
    LET p == ParsedTime(r.alarmTime)
        d == setHours(now, p.hours, p.minutes)
    IN  IF d # None /\ d[1] <= now THEN Some(d[1] + MsPerDay) ELSE d

\* scheduleLocalNotification without its cancelAllLocalNotifications()
scheduleLocalNotificationStacking(r) ==
    IF ~r.isAlarmEnabled \/ r.alarmTime \in {<<>>, Undefined}
    THEN scheduled
    ELSE Append(scheduled, alarmDate(r))

\* scheduleLocalNotification of render r: the armed notifications after it
scheduleLocalNotification(r) ==
    IF ~r.isAlarmEnabled \/ r.alarmTime \in {<<>>, Undefined}
    THEN scheduled
    ELSE Append(<<>>, alarmDate(r))

\* cancelAllLocalNotifications also clears the tray
scheduleClearsTray(r) == ~(~r.isAlarmEnabled \/ r.alarmTime \in {<<>>, Undefined})

\* handleAppStateChange that arms whether or not the alarm is enabled
handleAppStateChangeAlways(nextAppState) ==
    IF variant = 1 /\ nextAppState = "background"
    THEN /\ scheduled' = Append(<<>>, alarmDate(CurrentRender))
         /\ delivered' = FALSE
    ELSE UNCHANGED notifVars

\* AppState 'change' listener; the effect re-subscribes on
\* [isAlarmEnabled, alarmTime], so it reads the current render
handleAppStateChange(nextAppState) ==
    IF variant = 1 /\ nextAppState = "background" /\ isAlarmEnabled
    THEN /\ scheduled' = scheduleLocalNotification(CurrentRender)
         /\ delivered' = (delivered /\ ~scheduleClearsTray(CurrentRender))
    ELSE UNCHANGED notifVars

AppStateChange ==
    \E nextAppState \in {"active", "background"} :
        /\ nextAppState # appState
        /\ appState' = nextAppState
        /\ lastOp' = "appState"
        /\ handleAppStateChange(nextAppState)
        /\ emitted' = <<>>
        /\ alert' = "none"
        /\ UNCHANGED <<variant, alarmChecks, now, cfgVars, storeVars, playVars, timerVars,
                       webViewLoaded>>

\* the platform shows an armed notification once its date is reached; one
\* armed with the Invalid Date may be shown at any time
NotificationFire ==
    \E i \in 1..Len(scheduled) :
        /\ scheduled[i] = None \/ scheduled[i][1] <= now
        /\ scheduled' = SubSeq(scheduled, 1, i - 1) \o
                        SubSeq(scheduled, i + 1, Len(scheduled))
        /\ delivered' = TRUE
        /\ lastOp' = "notification"
        /\ emitted' = <<>>
        /\ alert' = "none"
        /\ UNCHANGED <<variant, alarmChecks, now, cfgVars, storeVars, playVars, timerVars,
                       appState, webViewLoaded>>

\* onNotification with userInteraction: configured in the mount effect, so
\* it calls the handleAlarmTrigger of the first render
NotificationTap ==
    /\ variant = 1
    /\ delivered
    /\ delivered' = FALSE
    /\ appState' = "active"
    /\ lastOp' = "notificationTap"
    /\ emitted' = <<>>
    /\ handleAlarmTrigger(FirstRender)
    /\ UNCHANGED <<variant, alarmChecks, now, cfgVars, storeVars, scheduled>>
    /\ RenderWebView

----------------------------------------------------------------------------
(* Persistence                                                             *)

\* the characters " and \
Quote == "\""
Backslash == "\\"

\* Escape that escapes nothing
EscapeNothing(s) == s

\* the text of a JSON string: JSON.stringify escapes ", \ and the newline
RECURSIVE Escape(_)
Escape(s) ==
    IF s = <<>> THEN <<>>
    ELSE (IF Head(s) \in {Quote, Backslash} THEN <<Backslash, Head(s)>>
          ELSE IF Head(s) = "\n" THEN <<Backslash, "n">>
          ELSE <<Head(s)>>) \o Escape(Tail(s))

QuoteString(s) == <<Quote>> \o Escape(s) \o <<Quote>>

KeyYoutubeUrl == <<"y", "o", "u", "t", "u", "b", "e", "U", "r", "l">>
KeyAlarmTime  == <<"a", "l", "a", "r", "m", "T", "i", "m", "e">>
KeyIsEnabled  == <<"i", "s", "E", "n", "a", "b", "l", "e", "d">>
TextTrue  == <<"t", "r", "u", "e">>
TextFalse == <<"f", "a", "l", "s", "e">>

\* JSON.stringify(data) of saveAlarmData for render r: the three members in
\* the order of the object literal; a member whose value is undefined is
\* left out
stringify(r) ==
    <<"{">> \o QuoteString(KeyYoutubeUrl) \o <<":">> \o QuoteString(r.youtubeUrl)
    \o (IF r.alarmTime = Undefined THEN <<>>
        ELSE <<",">> \o QuoteString(KeyAlarmTime) \o <<":">> \o
             QuoteString(r.alarmTime))
    \o <<",">> \o QuoteString(KeyIsEnabled) \o <<":">> \o
       (IF r.isAlarmEnabled THEN TextTrue ELSE TextFalse)
    \o <<"}">>

\* JSON.parse reads a string literal; i is the position after its opening
\* quote.  Escapes other than \" \\ \/ \n do not occur in the texts of a run.
RECURSIVE ReadString(_, _, _)
ReadString(s, i, acc) ==
    IF i > Len(s) THEN [ok |-> FALSE, str |-> <<>>, next |-> i]
    ELSE IF s[i] = Quote THEN [ok |-> TRUE, str |-> acc, next |-> i + 1]
    ELSE IF s[i] = "\n" THEN [ok |-> FALSE, str |-> <<>>, next |-> i]
    ELSE IF s[i] # Backslash THEN ReadString(s, i + 1, Append(acc, s[i]))
    ELSE IF i + 1 > Len(s) THEN [ok |-> FALSE, str |-> <<>>, next |-> i]
    ELSE IF s[i + 1] \in {Quote, Backslash, "/"}
    THEN ReadString(s, i + 2, Append(acc, s[i + 1]))
    ELSE IF s[i + 1] = "n" THEN ReadString(s, i + 2, Append(acc, "\n"))
    ELSE [ok |-> FALSE, str |-> <<>>, next |-> i]

\* JSON.parse reads a value at position i: a string, true or false (the
\* values the records of a run hold)
ReadValue(s, i) ==
    IF i > Len(s) THEN [ok |-> FALSE, kind |-> "none", str |-> <<>>,
                        bool |-> FALSE, next |-> i]
    ELSE IF s[i] = Quote
    THEN LET r == ReadString(s, i + 1, <<>>)
         IN  [ok |-> r.ok, kind |-> "string", str |-> r.str, bool |-> FALSE,
              next |-> r.next]
    ELSE IF i + 3 <= Len(s) /\ SubSeq(s, i, i + 3) = TextTrue
    THEN [ok |-> TRUE, kind |-> "boolean", str |-> <<>>, bool |-> TRUE,
          next |-> i + 4]
    ELSE IF i + 4 <= Len(s) /\ SubSeq(s, i, i + 4) = TextFalse
    THEN [ok |-> TRUE, kind |-> "boolean", str |-> <<>>, bool |-> FALSE,
          next |-> i + 5]
    ELSE [ok |-> FALSE, kind |-> "none", str |-> <<>>, bool |-> FALSE,
          next |-> i]

\* JSON.parse reads the members of an object; i is the position of the
\* opening quote of the next key
RECURSIVE ReadMembers(_, _, _)
ReadMembers(s, i, acc) ==
    LET fail == [ok |-> FALSE, members |-> <<>>]
    IN  IF i > Len(s) \/ s[i] # Quote THEN fail
        ELSE LET k == ReadString(s, i + 1, <<>>)
             IN  IF ~k.ok \/ k.next > Len(s) \/ s[k.next] # ":" THEN fail
                 ELSE LET v == ReadValue(s, k.next + 1)
                          m == Append(acc, [key |-> k.str, kind |-> v.kind,
                                            str |-> v.str, bool |-> v.bool])
                      IN  IF ~v.ok \/ v.next > Len(s) THEN fail
                          ELSE IF s[v.next] = ","
                          THEN ReadMembers(s, v.next + 1, m)
                          ELSE IF s[v.next] = "}" /\ v.next = Len(s)
                          THEN [ok |-> TRUE, members |-> m]
                          ELSE fail

\* JSON.parse(text) for a text without white space: the object it denotes,
\* or ok = FALSE where JSON.parse throws a SyntaxError
parse(text) ==
    IF Len(text) >= 2 /\ text[1] = "{"
    THEN IF Len(text) = 2 /\ text[2] = "}" THEN [ok |-> TRUE, members |-> <<>>]
         ELSE ReadMembers(text, 2, <<>>)
    ELSE [ok |-> FALSE, members |-> <<>>]

\* data.key: the object has the member (the last one of that name counts)
Has(data, key) == \E i \in 1..Len(data.members) : data.members[i].key = key

Member(data, key) ==
    data.members[CHOOSE i \in 1..Len(data.members) :
                    /\ data.members[i].key = key
                    /\ \A j \in (i + 1)..Len(data.members) :
                          data.members[j].key # key]

\* data.key read as a string, undefined when the member is absent
Str(data, key) == IF Has(data, key) THEN Member(data, key).str ELSE Undefined

\* data.key read as a boolean, undefined when the member is absent
Bool(data, key) == IF Has(data, key) THEN Member(data, key).bool ELSE Undefined

\* getItem('alarmData') answers null: no item was ever written
NoItem == <<"null">>

\* a text that is no JSON, and a record written without its alarmTime
TextGarbage == <<"{", "o", "o", "p", "s">>
TextNoAlarmTime ==
    stringify([youtubeUrl |-> UrlValid, alarmTime |-> Undefined,
               isAlarmEnabled |-> TRUE])

\* what AsyncStorage may hold when the process starts: nothing, or the
\* record of an enabled alarm
StoredAtStart ==
    {NoItem,
     stringify([youtubeUrl |-> UrlValid, alarmTime |-> Time0700,
                isAlarmEnabled |-> TRUE])}

\* the same, and what another version of the app or a damaged write may
\* have left: no JSON, a record without its time, a record whose URL needs
\* escaping
StoredAtStartAny ==
    StoredAtStart \cup
    {TextGarbage, TextNoAlarmTime,
     stringify([youtubeUrl |-> UrlQuoted, alarmTime |-> Time0700,
                isAlarmEnabled |-> FALSE])}

\* the forms a save can find, each with the text JSON.stringify makes of
\* it (evaluated once)
Forms ==
    [youtubeUrl : StoredUrls, alarmTime : AlarmTimes \cup {Undefined},
     isAlarmEnabled : BOOLEAN]

StringifiedForms == {[form |-> f, text |-> stringify(f)] : f \in Forms}

\* JSON.stringify(data) for the data of render r, looked up
Stringified(r) ==
    (CHOOSE p \in StringifiedForms :
        p.form = [youtubeUrl |-> r.youtubeUrl, alarmTime |-> r.alarmTime,
                  isAlarmEnabled |-> r.isAlarmEnabled]).text

\* every text the item can hold in a run, and JSON.parse of each (evaluated
\* once)
StoredTexts ==
    (StoredAtStartAny \ {NoItem}) \cup {p.text : p \in StringifiedForms}

ParsedTexts == {[text |-> t, data |-> parse(t)] : t \in StoredTexts}

Parsed(text) == (CHOOSE p \in ParsedTexts : p.text = text).data

\* loadAlarmData once getItem has answered: `if (savedData)` skips null and
\* '', a SyntaxError of JSON.parse is caught and logged; variant 1 sets the
\* three fields as read, variant 2 defaults a falsy field
loadAlarmData ==
    IF stored = NoItem \/ stored = <<>> THEN UNCHANGED cfgVars
    ELSE LET data == Parsed(stored)
         IN  IF ~data.ok THEN UNCHANGED cfgVars
             ELSE IF variant = 1
             THEN /\ youtubeUrl' = Str(data, KeyYoutubeUrl)
                  /\ alarmTime' = Str(data, KeyAlarmTime)
                  /\ isAlarmEnabled' = Bool(data, KeyIsEnabled)
             ELSE /\ youtubeUrl' = IF Str(data, KeyYoutubeUrl) = Undefined
                                   THEN <<>> ELSE Str(data, KeyYoutubeUrl)
                  /\ alarmTime' = IF Str(data, KeyAlarmTime) \in {Undefined, <<>>}
                                  THEN Time0700 ELSE Str(data, KeyAlarmTime)
                  /\ isAlarmEnabled' = IF Has(data, KeyIsEnabled)
                                       THEN Bool(data, KeyIsEnabled) ELSE FALSE

LoadDone ==
    /\ loadPending
    /\ loadPending' = FALSE
    /\ lastOp' = "load"
    /\ loadAlarmData
    /\ emitted' = <<>>
    /\ alert' = "none"
    /\ UNCHANGED <<variant, alarmChecks, now, stored, savePending, notifVars, appState,
                   playVars, timerVars>>
    /\ RenderWebView

\* saveAlarmData up to `await AsyncStorage.setItem(...)`: the handler of the
\* current render
SavePressed ==
    /\ appState = "active"
    /\ Len(savePending) < MaxPendingSaves
    /\ savePending' = Append(savePending, CurrentRender)
    /\ lastOp' = "savePressed"
    /\ emitted' = <<>>
    /\ alert' = "none"
    /\ UNCHANGED <<variant, alarmChecks, now, cfgVars, stored, loadPending, notifVars,
                   appState, playVars, timerVars, webViewLoaded>>

\* saveAlarmData after the await, for the render r that started it
saveAlarmData(r) ==
    /\ stored' = Stringified(r)
    /\ IF variant = 1
       THEN IF r.isAlarmEnabled
            THEN /\ scheduled' = scheduleLocalNotification(r)
                 /\ delivered' = (delivered /\ ~scheduleClearsTray(r))
                 /\ alert' = "alarm saved"
            ELSE /\ scheduled' = <<>>
                 /\ delivered' = FALSE
                 /\ alert' = "alarm cleared"
       ELSE /\ UNCHANGED notifVars
            /\ alert' = "saved"

\* setItem resolves, or rejects and the catch block reports it
SaveDone ==
    /\ savePending # <<>>
    /\ savePending' = Tail(savePending)
    /\ \/ /\ lastOp' = "saved"
          /\ saveAlarmData(Head(savePending))
       \/ /\ lastOp' = "saveFailed"
          /\ alert' = "save failed"
          /\ UNCHANGED <<stored, notifVars>>
    /\ emitted' = <<>>
    /\ UNCHANGED <<variant, alarmChecks, now, cfgVars, loadPending, appState, playVars,
                   timerVars, webViewLoaded>>

----------------------------------------------------------------------------
(* The form                                                                *)

SetYoutubeUrl ==
    \E u \in Urls :
        /\ appState = "active"
        /\ u # youtubeUrl
        /\ youtubeUrl' = u
        /\ lastOp' = "setYoutubeUrl"
        /\ emitted' = <<>>
        /\ alert' = "none"
        /\ UNCHANGED <<variant, alarmChecks, now, alarmTime, isAlarmEnabled, storeVars,
                       notifVars, appState, playVars, timerVars>>
        /\ RenderWebView

SetAlarmTime ==
    \E t \in AlarmTimes :
        /\ appState = "active"
        /\ t # alarmTime
        /\ alarmTime' = t
        /\ lastOp' = "setAlarmTime"
        /\ emitted' = <<>>
        /\ alert' = "none"
        /\ UNCHANGED <<variant, alarmChecks, now, youtubeUrl, isAlarmEnabled, storeVars,
                       notifVars, appState, playVars, timerVars, webViewLoaded>>

SetIsAlarmEnabled ==
    /\ appState = "active"
    /\ isAlarmEnabled' = ~isAlarmEnabled
    /\ lastOp' = "setIsAlarmEnabled"
    /\ emitted' = <<>>
    /\ alert' = "none"
    /\ UNCHANGED <<variant, alarmChecks, now, youtubeUrl, alarmTime, storeVars, notifVars,
                   appState, playVars, timerVars, webViewLoaded>>

----------------------------------------------------------------------------
(* The clock                                                               *)

\* time passes up to the next instant of interest; no pending timer is
\* skipped: a timer fires at its due time
Advance ==
    \E t \in Instants \cup {x.due : x \in timers} :
        /\ now < t
        /\ t <= Horizon
        /\ \A x \in timers : t <= x.due
        /\ now' = t
        /\ lastOp' = "advance"
        /\ emitted' = <<>>
        /\ alert' = "none"
        /\ UNCHANGED <<variant, alarmChecks, cfgVars, storeVars, notifVars, appState,
                       playVars, timerVars, webViewLoaded>>

----------------------------------------------------------------------------
(* The program                                                             *)

\* the state after the first render and the mount effect: the initial
\* useState values, loadAlarmData awaiting the store, no notification armed
Init ==
    /\ variant \in {1, 2}
    /\ now \in StartInstants
    /\ youtubeUrl = <<>>
    /\ alarmTime = Time0700
    /\ isAlarmEnabled = FALSE
    /\ isPlaying = FALSE
    /\ currentVolume = 1
    /\ playbackStartTime = None
    /\ timers = {}
    /\ nextTimerId = 1
    /\ volumeIntervalRef = None
    /\ stopIntervalRef = None
    /\ webViewLoaded = FALSE
    /\ stored \in StoredAtStart
    /\ loadPending = TRUE
    /\ savePending = <<>>
    /\ scheduled = <<>>
    /\ delivered = FALSE
    /\ appState = "active"
    /\ alarmChecks = {[started |-> now]}
    /\ emitted = <<>>
    /\ alert = "none"
    /\ lastOp = "mount"

\* the same with any of the items a store may hold
InitStore ==
    /\ variant \in {1, 2}
    /\ now \in StartInstants
    /\ youtubeUrl = <<>>
    /\ alarmTime = Time0700
    /\ isAlarmEnabled = FALSE
    /\ isPlaying = FALSE
    /\ currentVolume = 1
    /\ playbackStartTime = None
    /\ timers = {}
    /\ nextTimerId = 1
    /\ volumeIntervalRef = None
    /\ stopIntervalRef = None
    /\ webViewLoaded = FALSE
    /\ stored \in StoredAtStartAny
    /\ loadPending = TRUE
    /\ savePending = <<>>
    /\ scheduled = <<>>
    /\ delivered = FALSE
    /\ appState = "active"
    /\ alarmChecks = {[started |-> now]}
    /\ emitted = <<>>
    /\ alert = "none"
    /\ lastOp = "mount"

\* the process is killed and started again: the first render and the mount
\* effect run anew (cancelAllLocalNotifications, loadAlarmData); the item in
\* AsyncStorage is what survives, a save still awaiting setItem is lost
Restart ==
    /\ youtubeUrl' = <<>>
    /\ alarmTime' = Time0700
    /\ isAlarmEnabled' = FALSE
    /\ isPlaying' = FALSE
    /\ currentVolume' = 1
    /\ playbackStartTime' = None
    /\ timers' = {}
    /\ nextTimerId' = 1
    /\ volumeIntervalRef' = None
    /\ stopIntervalRef' = None
    /\ webViewLoaded' = FALSE
    /\ loadPending' = TRUE
    /\ savePending' = <<>>
    /\ scheduled' = <<>>
    /\ delivered' = FALSE
    /\ appState' = "active"
    /\ emitted' = <<>>
    /\ alert' = "none"
    /\ lastOp' = "mount"
    /\ alarmChecks' = {[started |-> now]}
    /\ UNCHANGED <<variant, now, stored>>

\* The Playback Ramp Controller with its trigger sources in the foreground:
\* the test action and the one-second check, every timer callback, the stop
\* button, the URL field, the load at start and the clock.
Next ==
    \/ testPlay
    \/ StopPressed
    \/ VolumeTimerFire
    \/ StopTimerFire
    \/ WebViewLoadEnd
    \/ PlayTimerFire
    \/ Tick
    \/ LoadDone
    \/ SetYoutubeUrl
    \/ Advance

Spec == Init /\ [][Next]_vars

\* The Alarm Scheduler: the time field and the toggle, save and load, the
\* app state, the notification collaborator, the one-second check and the
\* tap on a notification.
NextSched ==
    \/ SetAlarmTime
    \/ SetIsAlarmEnabled
    \/ SavePressed
    \/ SaveDone
    \/ LoadDone
    \/ AppStateChange
    \/ NotificationFire
    \/ NotificationTap
    \/ Tick
    \/ Advance

SchedSpec == Init /\ [][NextSched]_vars

\* The trigger and its three sources: the test action, the one-second check
\* and the tap on a notification, in the foreground and in the background,
\* with the alarm enabled or disabled.
\* The ramp timers a trigger arms stay pending: a behaviour ends, at the
\* latest, when the first of them is due.
NextTrigger ==
    \/ testPlay
    \/ StopPressed
    \/ Tick
    \/ NotificationTap
    \/ NotificationFire
    \/ AppStateChange
    \/ LoadDone
    \/ SetYoutubeUrl
    \/ SetIsAlarmEnabled
    \/ Advance

TriggerSpec == Init /\ [][NextTrigger]_vars

\* Persistence: the time field and the toggle, save and load, and the
\* process starting again on whatever the store holds (the URL of the form
\* is the one a load found).
NextStore ==
    \/ SetAlarmTime
    \/ SetIsAlarmEnabled
    \/ SavePressed
    \/ SaveDone
    \/ LoadDone
    \/ Restart

StoreSpec == InitStore /\ [][NextStore]_vars

----------------------------------------------------------------------------
(* Properties                                                              *)

TriggerOps == {"testPlay", "tick", "notificationTap"}

StopMessage == [action |-> "stop"]

SessionTimers(ts) == {t \in ts : t.kind \in {"volume", "stop"}}

\* t is a zero-padded HH:MM time of day, hour 0-23 and minute 0-59
IsTimeOfDay(t) ==
    /\ Len(t) = 5
    /\ t[3] = ":"
    /\ \A i \in {1, 2, 4, 5} : IsDigit(t[i])
    /\ 10 * DigitValue(t[1]) + DigitValue(t[2]) <= 23
    /\ 10 * DigitValue(t[4]) + DigitValue(t[5]) <= 59

\* the persisted record, its enabled flag and its time
Persisted ==
    IF stored = NoItem THEN [ok |-> FALSE, members |-> <<>>] ELSE Parsed(stored)

PersistedEnabled ==
    Persisted.ok /\ Has(Persisted, KeyIsEnabled) /\ Bool(Persisted, KeyIsEnabled)

PersistedTime == Str(Persisted, KeyAlarmTime)

\* the time of day a zero-padded HH:MM string names, in ms
TimeOfDay(t) ==
    (10 * DigitValue(t[1]) + DigitValue(t[2])) * MsPerHour +
    (10 * DigitValue(t[4]) + DigitValue(t[5])) * MsPerMinute

\* the wall clock is in the minute alarmTime names / in its first second
InTargetMinute ==
    /\ IsTimeOfDay(alarmTime)
    /\ now % MsPerDay >= TimeOfDay(alarmTime)
    /\ now % MsPerDay < TimeOfDay(alarmTime) + MsPerMinute

InTargetSecond ==
    /\ IsTimeOfDay(alarmTime)
    /\ now % MsPerDay >= TimeOfDay(alarmTime)
    /\ now % MsPerDay < TimeOfDay(alarmTime) + MsPerSecond

\* C1: a trigger (test action, tick or notification tap) while Playing is a
\* no-op: it leaves the volume step and the start time unchanged and arms no
\* further step timer or auto-stop timer.  (Stated for sessions playing a
\* resolvable URL.)
C1_TriggerWhilePlayingIsNoOp ==
    [][(isPlaying /\ videoIdOf(youtubeUrl) # None /\ lastOp' \in TriggerOps) =>
          /\ currentVolume' = currentVolume
          /\ playbackStartTime' = playbackStartTime
          /\ SessionTimers(timers') = SessionTimers(timers)]_vars

\* C2: during a Playing session every firing of a step timer raises the
\* volume step by exactly 1 while it is below 8; at 8 the step stays and no
\* setVolume message is posted.  (Stated for a session whose step timer is
\* the only one pending, that is, one no trigger has re-entered.)
C2_StepTimerRaisesByOne ==
    [][(/\ isPlaying
        /\ Cardinality({t \in timers : t.kind = "volume"}) = 1
        /\ lastOp' = "volumeTimer") =>
          IF currentVolume < MaxVolume
          THEN currentVolume' = currentVolume + 1
          ELSE currentVolume' = currentVolume /\ emitted' = <<>>]_vars

\* C3: when the auto-stop timer of a Playing session fires, the phase becomes
\* Idle and no step timer or auto-stop timer remains pending, whatever
\* triggers came before.
C3_AutoStopClearsAllTimers ==
    [][(isPlaying /\ videoIdOf(youtubeUrl) # None /\ lastOp' = "stopTimer") =>
          ~isPlaying' /\ SessionTimers(timers') = {}]_vars

\* C4 as stated: a manual stop in any Playing state resets the step to 1,
\* clears the start time, makes the phase Idle and posts exactly one stop
\* message.
C4_StopPostsOneMessage ==
    [][(isPlaying /\ lastOp' = "stopPressed") =>
          /\ currentVolume' = 1
          /\ playbackStartTime' = None
          /\ ~isPlaying'
          /\ emitted' = <<StopMessage>>]_vars

\* C4 as amended: a manual stop in any Playing state resets the step to 1,
\* clears the start time and makes the phase Idle; it posts exactly one stop
\* message when the URL of the form yields a video identifier (the WebView
\* is mounted) and no message otherwise.
C4_StopResetsAndPostsIfMounted ==
    [][(isPlaying /\ lastOp' = "stopPressed") =>
          /\ currentVolume' = 1
          /\ playbackStartTime' = None
          /\ ~isPlaying'
          /\ (videoIdOf(youtubeUrl) # None => emitted' = <<StopMessage>>)
          /\ (videoIdOf(youtubeUrl) = None => emitted' = <<>>)]_vars

\* a manual stop has just ended a session with a mounted WebView, with step
\* timers of that session gone
C4_Witness ==
    /\ lastOp = "stopPressed"
    /\ emitted = <<StopMessage>>
    /\ ~isPlaying
    /\ now > At(7, 1, 0, 0)

\* C5: a tick that lands in the matching minute of an enabled alarm leaves
\* exactly one Playing session: it starts one when the phase is Idle, and
\* when the phase is already Playing it changes neither the step nor the
\* start time and arms no timer.
C5_TicksInSameMinuteFireOnce ==
    [][(/\ lastOp' = "tick"
        /\ appState = "active"
        /\ isAlarmEnabled
        /\ videoIdOf(youtubeUrl) # None
        /\ InTargetMinute
        /\ InTargetSecond \/ isPlaying) =>
          /\ isPlaying'
          /\ isPlaying => /\ currentVolume' = currentVolume
                          /\ playbackStartTime' = playbackStartTime
                          /\ timers' = timers]_vars

\* C6: in the foreground, with the alarm enabled, a resolvable URL and the
\* phase Idle, the tick at the configured time starts playback.
C6_TickAtTargetTimeStartsPlaying ==
    [][(/\ lastOp' = "tick"
        /\ appState = "active"
        /\ isAlarmEnabled
        /\ videoIdOf(youtubeUrl) # None
        /\ ~isPlaying
        /\ InTargetSecond) => isPlaying']_vars

\* the earliest timestamp among today's and tomorrow's occurrence of the
\* time of day tod that satisfies ok
Earliest(tod, ok(_)) ==
    LET today == (now - (now % MsPerDay)) + tod
        cands == {c \in {today, today + MsPerDay} : ok(c)}
    IN  CHOOSE c \in cands : \A d \in cands : c <= d

AtOrAfterNow(c) == c >= now
AfterNow(c) == c > now

\* an enabled save of variant 1 has just armed its notification
EnabledSaveDone ==
    /\ variant = 1
    /\ lastOp = "saved"
    /\ PersistedEnabled
    /\ IsTimeOfDay(PersistedTime)

C8_AtMostOneArmedSignal ==
    /\ Len(scheduled) <= 1
    /\ (lastOp = "saved" /\ ~PersistedEnabled) => scheduled = <<>>

\* going to the background has re-armed the signal an enabled save had armed
C8_Witness ==
    /\ lastOp = "appState"
    /\ appState = "background"
    /\ PersistedEnabled
    /\ isAlarmEnabled
    /\ Len(scheduled) = 1
    /\ ~loadPending

\* C9: a trigger attempted while the URL is empty changes no playback state,
\* arms no timer and posts no message; the test action and the tap report
\* the missing URL.
C9_EmptyUrlTriggerFails ==
    [][(youtubeUrl = <<>> /\ lastOp' \in TriggerOps) =>
          /\ UNCHANGED <<isPlaying, currentVolume, playbackStartTime>>
          /\ timers' = timers
          /\ emitted' = <<>>
          /\ lastOp' # "tick" => alert' = "YouTube URL not set"]_vars

\* a tap on the notification was answered with the missing-URL alert
C9_Witness ==
    /\ lastOp = "notificationTap"
    /\ youtubeUrl = <<>>
    /\ alert = "YouTube URL not set"
    /\ ~isPlaying
    /\ timers = {}

\* C10: a trigger attempted with a non-empty URL that yields no video
\* identifier does not enter Playing and arms no timer.
C10_UnresolvableUrlTriggerFails ==
    [][(/\ youtubeUrl # <<>>
        /\ videoIdOf(youtubeUrl) = None
        /\ ~isPlaying
        /\ lastOp' \in TriggerOps) =>
          ~isPlaying' /\ timers' = timers]_vars

\* C11: a save whose time field is not a zero-padded HH:MM time of day is
\* rejected: when it settles, the stored item is what it was and no
\* notification has been armed or cancelled.
C11_MalformedTimeSaveRejected ==
    [][(/\ savePending # <<>>
        /\ ~IsTimeOfDay(Head(savePending).alarmTime)
        /\ lastOp' \in {"saved", "saveFailed"}) =>
          UNCHANGED <<stored, scheduled, delivered>>]_vars

\* C12: a tap on the notification while the phase is Idle and the URL of the
\* form is resolvable starts playback: Playing, step 1, a step timer and an
\* auto-stop timer armed.
C12_TapStartsPlaying ==
    [][(/\ lastOp' = "notificationTap"
        /\ ~isPlaying
        /\ videoIdOf(youtubeUrl) # None) =>
          /\ isPlaying'
          /\ currentVolume' = 1
          /\ \E t \in timers' \ timers : t.kind = "volume"
          /\ \E t \in timers' \ timers : t.kind = "stop"]_vars

\* C13: every transition of the app from the background to active restarts
\* the one-second check: a check interval armed by the transition is the
\* only one armed afterwards, and the transition starts no playback.
C13_ForegroundRestartsCheck ==
    [][(lastOp' = "appState" /\ appState' = "active") =>
          /\ \E c \in alarmChecks' : c \notin alarmChecks
          /\ Cardinality(alarmChecks') = 1
          /\ UNCHANGED <<isPlaying, timers>>]_vars

\* the forms with a valid time, each with the text its save writes
SavedForms == {p \in StringifiedForms : IsTimeOfDay(p.form.alarmTime)}

\* C14: a load that finds the record a save wrote for a form with a valid
\* HH:MM time, any URL and any enabled flag sets the three fields of the form
\* to exactly the saved values.
C14_SaveThenLoadRoundTrips ==
    [][lastOp' = "load" =>
          \A s \in SavedForms :
              stored = s.text =>
                  /\ youtubeUrl' = s.form.youtubeUrl
                  /\ alarmTime' = s.form.alarmTime
                  /\ isAlarmEnabled' = s.form.isAlarmEnabled]_vars

\* a record with a URL that needs escaping was saved in this run (no store
\* starts with it), the process started again and the load has read it back
C14_Witness ==
    /\ lastOp = "load"
    /\ youtubeUrl = UrlQuoted
    /\ alarmTime = Time2359
    /\ isAlarmEnabled
    /\ stored = stringify([youtubeUrl |-> UrlQuoted, alarmTime |-> Time2359,
                           isAlarmEnabled |-> TRUE])

\* the form holds the values of the first render
FormAtDefaults == youtubeUrl = <<>> /\ alarmTime = Time0700 /\ ~isAlarmEnabled

\* C15: a load into the untouched form leaves every field the store does
\* not provide at its default: all three when there is no item or the item
\* is no JSON, and each field a parsed record lacks otherwise ('' for the
\* URL, 07:00 for the time, false for the flag).
C15_LoadFallsBackToDefaults ==
    [][(lastOp' = "load" /\ FormAtDefaults) =>
          IF ~Persisted.ok
          THEN UNCHANGED cfgVars
          ELSE /\ ~Has(Persisted, KeyYoutubeUrl) => youtubeUrl' = <<>>
               /\ ~Has(Persisted, KeyAlarmTime) => alarmTime' = Time0700
               /\ ~Has(Persisted, KeyIsEnabled) => isAlarmEnabled' = FALSE]_vars

\* C16: whenever the phase is Idle no step timer and no auto-stop timer is
\* pending.
C16_IdleHasNoSessionTimers ==
    ~isPlaying => SessionTimers(timers) = {}

\* C17: whenever the phase is Idle the volume step is 1 and no start time is
\* kept, and the step is within 1..8 in every state.
C17_IdleStepIsOne ==
    /\ currentVolume \in 1..MaxVolume
    /\ ~isPlaying => currentVolume = 1 /\ playbackStartTime = None

\* the setVolume messages among those the last action posted
SetVolumeMessages(ms) ==
    {ms[i].volume : i \in {j \in 1..Len(ms) : ms[j].action = "setVolume"}}

\* C18: a setVolume message posted by the step timer of a session (the only
\* step timer pending) carries the step just reached over 8, and that step
\* is above the one before: the levels of a session are 2/8 ... 8/8, each
\* sent once.
C18_SetVolumeLevelsIncrease ==
    [][(/\ isPlaying
        /\ Cardinality({t \in timers : t.kind = "volume"}) = 1
        /\ lastOp' = "volumeTimer") =>
          \A level \in SetVolumeMessages(emitted') :
              /\ level = <<currentVolume', MaxVolume>>
              /\ currentVolume' > currentVolume
              /\ currentVolume' \in 2..MaxVolume]_vars

\* the alarm is disabled in the form and in the store
Disabled == ~isAlarmEnabled /\ ~PersistedEnabled

\* C19: while the alarm is disabled, a tick or a change of the app state
\* neither starts playback nor arms a notification, and whatever starts
\* playback is the test action.
C19_DisabledNeverStarts ==
    [][Disabled =>
          /\ lastOp' \in {"tick", "appState"} =>
                 /\ isPlaying' = isPlaying
                 /\ scheduled' = scheduled
          /\ (~isPlaying /\ isPlaying') => lastOp' = "testPlay"]_vars

\* the app of a disabled alarm went to the background after its load, at
\* the minute of the alarm, and nothing is armed
C19_Witness ==
    /\ Disabled
    /\ variant = 1
    /\ ~loadPending
    /\ lastOp = "appState"
    /\ appState = "background"
    /\ now >= At(7, 0, 0, 0)
    /\ scheduled = <<>>

C21_ArmedImpliesPersistedEnabled ==
    scheduled # <<>> =>
        /\ PersistedEnabled
        /\ IsTimeOfDay(PersistedTime)
        /\ \A i \in 1..Len(scheduled) :
              /\ scheduled[i] # None
              /\ scheduled[i][1] % MsPerDay = TimeOfDay(PersistedTime)

\* C22: in the app with notifications, when the stored record is enabled
\* and the toggle of the form has not been switched off after the load,
\* every transition to the background leaves a notification armed, whether
\* or not the load of the start has completed.
C22_BackgroundArmsAfterStart ==
    [][(/\ variant = 1
        /\ PersistedEnabled
        /\ loadPending \/ isAlarmEnabled
        /\ lastOp' = "appState"
        /\ appState' = "background") => scheduled' # <<>>]_vars
====
